---- MODULE Spec2Model ----
(***************************************************************************)
(* Model of src/app.py: the webcam gesture dispatcher and the frame        *)
(* generator that hosts it.                                                *)
(*                                                                         *)
(* Units.  Time is counted in ticks of 0.05 s, so that the cooldowns       *)
(* 0.2 s, 1 s and 5 s are 4, 20 and 100 ticks.  Volume is counted in       *)
(* steps of 0.005, so that 1.0 is 200, the adjustment 0.01 is 2, and the   *)
(* values 0.005 and 0.995 are 1 and 199.                                   *)
(***************************************************************************)
EXTENDS Integers, Sequences, FiniteSets, TLC

\* ------------------------------------------------------------------ bounds
\* Camera frames read by the process, over all its sessions.
MaxFrames == 3
\* Hands the detector reports to the process, over all its frames.
MaxDetections == 2
\* Clock value when the process starts (time.time() is far above every
\* cooldown; the last-fired times start at 0).
StartTime == 101
\* Ticks that may pass between the clock read of the dispatch (line 95) and
\* the clock read of take_screenshot (line 157).
MaxLatency == 1
\* Two viewers at once: hands dispatched by the two generators together.
MaxConcDetections == 3
\* A held gesture: ticks of the clock after StartTime that are followed.
HoldTicks == 230

\* ------------------------------------------------------- program constants
screenshot_cooldown_right == 100
space_cooldown_left == 20
volume_cooldown_right == 4
VolumeStep == 2
VolumeMax == 200
maxHands == 2
TicksPerSecond == 20

\* Ticks the clock may advance between two consecutive clock reads.
Deltas == {0, 2, 5, 20, 100}
\* Volume of the audio endpoint when the process starts.
InitVolumes == {1, 199}

Min(a, b) == IF a <= b THEN a ELSE b
Max(a, b) == IF a >= b THEN a ELSE b

\* ------------------------------------------------------------ observations
Bit == {0, 1}
\* detector.fingersUp: every 5-element vector of 0/1
FingerVectors == [1..5 -> Bit]
HandTypes == {"Left", "Right"}
Hand(ty, fs) == [type |-> ty, fingers |-> fs]

ThumbOnly == <<1, 0, 0, 0, 0>>
LittleOnly == <<0, 0, 0, 0, 1>>
Victory == <<0, 1, 1, 0, 0>>
PalmOpen == <<1, 1, 1, 1, 1>>

Actions == {"VolumeUp", "VolumeDown", "Screenshot", "SpacePress"}

\* (mutant) the chain without the test of the handedness: either hand
\* triggers every gesture
GestureOfAnyHand(hand) ==
    IF hand.fingers = ThumbOnly THEN "VolumeUp"
    ELSE IF hand.fingers = LittleOnly THEN "VolumeDown"
    ELSE IF hand.fingers = Victory THEN "Screenshot"
    ELSE IF hand.fingers = PalmOpen THEN "SpacePress"
    ELSE "None"
\* (mutant) the chain with the two hand types exchanged
GestureOfMirrored(hand) ==
    IF hand.type = "Left"
    THEN IF hand.fingers = ThumbOnly THEN "VolumeUp"
         ELSE IF hand.fingers = LittleOnly THEN "VolumeDown"
         ELSE IF hand.fingers = Victory THEN "Screenshot"
         ELSE "None"
    ELSE IF hand.type = "Right"
    THEN IF hand.fingers = PalmOpen THEN "SpacePress" ELSE "None"
    ELSE "None"
\* The if/elif chain of the hand loop: the action whose pattern the hand
\* shows, or "None".
GestureOf(hand) ==
    IF hand.type = "Right"
    THEN IF hand.fingers = ThumbOnly THEN "VolumeUp"
         ELSE IF hand.fingers = LittleOnly THEN "VolumeDown"
         ELSE IF hand.fingers = Victory THEN "Screenshot"
         ELSE "None"
    ELSE IF hand.type = "Left"
    THEN IF hand.fingers = PalmOpen THEN "SpacePress" ELSE "None"
    ELSE "None"

\* (mutant) a rule matches as soon as the fingers of its pattern are raised,
\* whatever the other fingers do
RuleMatchesRaised(a, hand) ==
    CASE a = "VolumeUp"   -> hand.type = "Right" /\ hand.fingers[1] = 1
      [] a = "VolumeDown" -> hand.type = "Right" /\ hand.fingers[5] = 1
      [] a = "Screenshot" ->
             hand.type = "Right" /\ hand.fingers[2] = 1 /\ hand.fingers[3] = 1
      [] a = "SpacePress" -> hand.type = "Left" /\ hand.fingers = PalmOpen
      [] OTHER -> FALSE
\* The test that guards the branch of action a, taken on its own: the
\* handedness test of line 91 / 126 and the comparison of line 98, 108, 118
\* or 133.
RuleMatches(a, hand) ==
    CASE a = "VolumeUp"   -> hand.type = "Right" /\ hand.fingers = ThumbOnly
      [] a = "VolumeDown" -> hand.type = "Right" /\ hand.fingers = LittleOnly
      [] a = "Screenshot" -> hand.type = "Right" /\ hand.fingers = Victory
      [] a = "SpacePress" -> hand.type = "Left" /\ hand.fingers = PalmOpen
      [] OTHER -> FALSE

\* The rule table of the specification: the four (handedness, pattern) pairs.
RuleTable ==
    { Hand("Right", ThumbOnly), Hand("Right", LittleOnly),
      Hand("Right", Victory), Hand("Left", PalmOpen) }
AllHands == { Hand(ty, fs) : ty \in HandTypes, fs \in FingerVectors }

\* The finger vectors the frames of the model show: the four patterns, the
\* fist, and two near misses (one finger more than ThumbOnly, one finger
\* less than Victory).
FrameFingers ==
    { ThumbOnly, LittleOnly, Victory, PalmOpen,
      <<0, 0, 0, 0, 0>>, <<1, 1, 0, 0, 0>>, <<0, 1, 0, 0, 0>> }
\* detector.findHands: zero, one or two hands.  A frame with one hand shows
\* either handedness with any vector of FrameFingers; a frame with two hands
\* shows two trigger gestures, in any order.
Detections ==
    {<<>>} \cup { <<Hand(ty, fs)>> : ty \in HandTypes, fs \in FrameFingers }
           \cup { <<g, h>> : g \in RuleTable, h \in RuleTable }

\* The frame generators of two viewers connected at the same time.
Generators == {1, 2}
\* Ticks between two clock reads of the concurrent generators.
ConcDeltas == {0, 2, 5}

\* ------------------------------------------------------------------- state
VARIABLES
    now,                            \* the wall clock (time.time(), datetime.now())
    current_volume,                 \* line 28: cached volume
    last_screenshot_time_right,     \* line 39
    last_space_time_left,           \* line 42
    last_volume_change_time_right,  \* line 45
    volume_control,                 \* the audio endpoint: its master volume
    files,                          \* the screenshot sink: names of the files written
    pc,                             \* position of the frame generator
    cap,                            \* the session's camera: "none", "open", "released"
    hands,                          \* line 79: the detections of the current frame
    idx,                            \* line 82: position of the hand loop in hands
    current_time,                   \* lines 95, 130: the dispatch's clock read
    frames,                         \* frames read so far
    detected,                       \* hands detected so far
    emitted,                        \* frame parts yielded so far
    cap_releases,                   \* cap.release() calls of the current session
    calls,                          \* completed sink calls while processing the current frame
    firedAt,                        \* per action: clock read of its latest firing (0: never)
    overwritten,                    \* a screenshot replaced an earlier file
    sink_raised,                    \* the latest dispatch ended in a sink exception
    snap,                           \* the process state when the current frame was read
    on_script,                      \* the frames read so far are a prefix of Scenario
    later_session,                  \* the current session is not the first of the process
    gpc,                            \* concurrent viewers: position of each generator
    ghand,                          \* concurrent viewers: action matched by each generator's hand
    gtime,                          \* concurrent viewers: each generator's current_time (line 95)
    gtmp,                           \* concurrent viewers: value each generator is about to store (line 101 / 111)
    expected                        \* the volume if every firing had stepped the value left by the one before

globals == <<current_volume, last_screenshot_time_right, last_space_time_left,
             last_volume_change_time_right>>
sinks == <<volume_control, files, overwritten>>
locals == <<hands, idx, current_time>>
history == <<calls, firedAt, sink_raised, snap, on_script>>
sessions == <<later_session>>
conc == <<gpc, ghand, gtime, gtmp, expected>>
counters == <<frames, detected, emitted, cap_releases>>
vars == <<now, globals, sinks, pc, cap, locals, history, counters, sessions, conc>>

NoCalls == [a \in Actions |-> 0]
NoSnap == [now |-> 0, volume |-> 0, device |-> 0, shot |-> 0, space |-> 0,
           vol |-> 0, files |-> {}]
Snapshot ==
    [now |-> now, volume |-> current_volume, device |-> volume_control,
     shot |-> last_screenshot_time_right, space |-> last_space_time_left,
     vol |-> last_volume_change_time_right, files |-> files]

\* The three-frame end-to-end scenario of the specification.
Scenario == << <<Hand("Right", ThumbOnly)>>, <<>>, <<Hand("Left", PalmOpen)>> >>

\* ----------------------------------------------------------- pure helpers
\* (mutant) the gate opens only for an action that has never fired
CooldownElapsedOnce(t, last, cooldown) == last = 0 /\ t - last > cooldown
\* (mutant) the gate opens already when exactly the cooldown has passed
CooldownElapsedInclusive(t, last, cooldown) == t - last >= cooldown
\* lines 99, 109, 119, 134: the cooldown gate
CooldownElapsed(t, last, cooldown) == t - last > cooldown

\* (mutant) the increase without its clamp
IncreasedVolumeUnclamped(v) == v + VolumeStep
\* line 101
IncreasedVolume(v) == Min(v + VolumeStep, VolumeMax)
\* line 111
DecreasedVolume(v) == Max(v - VolumeStep, 0)

\* (mutant) the file name cut to whole minutes ('%Y%m%d_%H%M')
ScreenshotNameMinute(t) == t \div (60 * TicksPerSecond)
\* line 157: the file name is the clock read cut to whole seconds
ScreenshotName(t) == t \div TicksPerSecond

\* The cooldown of each action, and the last-fired variable its gate reads.
Cooldown(a) ==
    CASE a = "VolumeUp" -> volume_cooldown_right
      [] a = "VolumeDown" -> volume_cooldown_right
      [] a = "Screenshot" -> screenshot_cooldown_right
      [] a = "SpacePress" -> space_cooldown_left
\* (mutant) one last-fired variable gates every action
TimerShared(a) == last_volume_change_time_right
Timer(a) ==
    CASE a = "VolumeUp" -> last_volume_change_time_right
      [] a = "VolumeDown" -> last_volume_change_time_right
      [] a = "Screenshot" -> last_screenshot_time_right
      [] a = "SpacePress" -> last_space_time_left

\* ------------------------------------------------------------------- Init
Init ==
    /\ now = StartTime
    /\ current_volume \in InitVolumes
    /\ volume_control = current_volume
    /\ last_screenshot_time_right = 0
    /\ last_space_time_left = 0
    /\ last_volume_change_time_right = 0
    /\ files = {}
    /\ overwritten = FALSE
    /\ pc = "idle"
    /\ cap = "none"
    /\ hands = <<>>
    /\ idx = 1
    /\ current_time = 0
    /\ frames = 0
    /\ detected = 0
    /\ emitted = 0
    /\ cap_releases = 0
    /\ calls = NoCalls
    /\ firedAt = [a \in Actions |-> 0]
    /\ sink_raised = FALSE
    /\ snap = NoSnap
    /\ on_script = TRUE
    /\ later_session = FALSE
    /\ gpc = [g \in Generators |-> "idle"]
    /\ ghand = [g \in Generators |-> "None"]
    /\ gtime = [g \in Generators |-> 0]
    /\ gtmp = [g \in Generators |-> 0]
    /\ expected = current_volume

\* ---------------------------------------------------------------- actions
\* (mutant) every session starts like a fresh process: the last-fired times
\* are zeroed and the cached volume is re-read from the device
video_feedFresh ==
    /\ pc \in {"idle", "done", "closed", "failed"}
    /\ cap' = "open"
    /\ cap_releases' = 0
    /\ pc' = "read"
    /\ hands' = <<>>
    /\ idx' = 1
    /\ current_time' = 0
    /\ calls' = NoCalls
    /\ snap' = NoSnap
    /\ sink_raised' = FALSE
    /\ later_session' = (pc # "idle")
    /\ current_volume' = volume_control
    /\ last_screenshot_time_right' = 0
    /\ last_space_time_left' = 0
    /\ last_volume_change_time_right' = 0
    /\ UNCHANGED <<now, sinks, frames, detected, emitted, firedAt, on_script,
                   conc>>
\* lines 56-68: a client requests /video_feed; a new generator opens the camera.
\* One viewer at a time: the previous generator has ended.
video_feed ==
    /\ pc \in {"idle", "done", "closed", "failed"}
    /\ cap' = "open"
    /\ cap_releases' = 0
    /\ pc' = "read"
    /\ hands' = <<>>
    /\ idx' = 1
    /\ current_time' = 0
    /\ calls' = NoCalls
    /\ snap' = NoSnap
    /\ sink_raised' = FALSE
    /\ later_session' = (pc # "idle")
    /\ UNCHANGED <<now, globals, sinks, frames, detected, emitted, firedAt,
                   on_script, conc>>

\* lines 71-79: a frame is read and the detector returns its hands
ReadFrame(hs) ==
    /\ pc = "read"
    /\ frames < MaxFrames
    /\ detected + Len(hs) <= MaxDetections
    /\ frames' = frames + 1
    /\ detected' = detected + Len(hs)
    /\ hands' = hs
    /\ idx' = 1
    /\ pc' = "hands"
    /\ calls' = NoCalls
    /\ snap' = Snapshot
    /\ sink_raised' = FALSE
    /\ on_script' = (on_script /\ frames < Len(Scenario) /\ hs = Scenario[frames + 1])
    /\ UNCHANGED <<sessions, conc, now, globals, sinks, cap, current_time, emitted,
                   cap_releases, firedAt>>

\* (mutant) the loop breaks and line 149 is missing
ReadFailsNoRelease ==
    /\ pc = "read"
    /\ pc' = "done"
    /\ UNCHANGED <<sessions, conc, now, globals, sinks, cap, locals, history, counters>>
\* lines 71-74, 149: the read fails; the loop breaks and the camera is released
ReadFails ==
    /\ pc = "read"
    /\ cap' = "released"
    /\ cap_releases' = cap_releases + 1
    /\ pc' = "done"
    /\ UNCHANGED <<sessions, conc, now, globals, sinks, locals, history, frames, detected,
                   emitted>>

\* The hand the loop is at, and the steps every dispatch of it shares:
\* the clock read of line 95 / 130 and the move to the next hand.
AtHand == pc = "hands" /\ idx <= Len(hands)
ReadClock(t) ==
    /\ t >= now
    /\ current_time' = t
\* (mutant) the loop is left after its first hand
NextHandBreak ==
    /\ idx' = Len(hands) + 1
    /\ UNCHANGED <<sessions, conc, pc, cap, hands, frames, detected, emitted,
                   cap_releases, snap, on_script>>
\* line 82: the loop moves to the next hand
NextHand ==
    /\ idx' = idx + 1
    /\ UNCHANGED <<sessions, conc, pc, cap, hands, frames, detected, emitted,
                   cap_releases, snap, on_script>>
Fired(a, t) ==
    /\ calls' = [calls EXCEPT ![a] = @ + 1]
    /\ firedAt' = [firedAt EXCEPT ![a] = t]
    /\ sink_raised' = FALSE

\* (mutant) the device is set before the cached value is stepped: the sink
\* receives the old cached value
IncreaseVolumeStale(t) ==
    /\ AtHand /\ GestureOf(hands[idx]) = "VolumeUp"
    /\ ReadClock(t)
    /\ CooldownElapsed(t, last_volume_change_time_right, volume_cooldown_right)
    /\ current_volume' = IncreasedVolume(current_volume)
    /\ volume_control' = current_volume
    /\ last_volume_change_time_right' = t
    /\ now' = t
    /\ Fired("VolumeUp", t)
    /\ NextHand
    /\ UNCHANGED <<last_screenshot_time_right, last_space_time_left, files,
                   overwritten>>
\* lines 98-105
IncreaseVolume(t) ==
    /\ AtHand /\ GestureOf(hands[idx]) = "VolumeUp"
    /\ ReadClock(t)
    /\ CooldownElapsed(t, last_volume_change_time_right, volume_cooldown_right)
    /\ current_volume' = IncreasedVolume(current_volume)
    /\ volume_control' = current_volume'
    /\ last_volume_change_time_right' = t
    /\ now' = t
    /\ Fired("VolumeUp", t)
    /\ NextHand
    /\ UNCHANGED <<last_screenshot_time_right, last_space_time_left, files,
                   overwritten>>

\* lines 108-115
DecreaseVolume(t) ==
    /\ AtHand /\ GestureOf(hands[idx]) = "VolumeDown"
    /\ ReadClock(t)
    /\ CooldownElapsed(t, last_volume_change_time_right, volume_cooldown_right)
    /\ current_volume' = DecreasedVolume(current_volume)
    /\ volume_control' = current_volume'
    /\ last_volume_change_time_right' = t
    /\ now' = t
    /\ Fired("VolumeDown", t)
    /\ NextHand
    /\ UNCHANGED <<last_screenshot_time_right, last_space_time_left, files,
                   overwritten>>

\* lines 118-124, 155-159: take_screenshot reads the clock again for the name
TakeScreenshot(t, u) ==
    /\ AtHand /\ GestureOf(hands[idx]) = "Screenshot"
    /\ ReadClock(t)
    /\ CooldownElapsed(t, last_screenshot_time_right, screenshot_cooldown_right)
    /\ u \in t .. t + MaxLatency
    /\ now' = u
    /\ files' = files \cup {ScreenshotName(u)}
    /\ overwritten' = (overwritten \/ ScreenshotName(u) \in files)
    /\ last_screenshot_time_right' = t
    /\ Fired("Screenshot", t)
    /\ NextHand
    /\ UNCHANGED <<current_volume, volume_control, last_space_time_left,
                   last_volume_change_time_right>>

\* lines 133-139
PressSpace(t) ==
    /\ AtHand /\ GestureOf(hands[idx]) = "SpacePress"
    /\ ReadClock(t)
    /\ CooldownElapsed(t, last_space_time_left, space_cooldown_left)
    /\ last_space_time_left' = t
    /\ now' = t
    /\ Fired("SpacePress", t)
    /\ NextHand
    /\ UNCHANGED <<current_volume, volume_control, last_screenshot_time_right,
                   last_volume_change_time_right, files, overwritten>>

\* (mutant) a suppressed detection restarts the cooldown of its action
SuppressedRestarts(t) ==
    /\ AtHand /\ GestureOf(hands[idx]) \in Actions
    /\ ReadClock(t)
    /\ ~CooldownElapsed(t, Timer(GestureOf(hands[idx])), Cooldown(GestureOf(hands[idx])))
    /\ last_volume_change_time_right' =
         IF GestureOf(hands[idx]) \in {"VolumeUp", "VolumeDown"}
         THEN t ELSE last_volume_change_time_right
    /\ last_screenshot_time_right' =
         IF GestureOf(hands[idx]) = "Screenshot" THEN t ELSE last_screenshot_time_right
    /\ last_space_time_left' =
         IF GestureOf(hands[idx]) = "SpacePress" THEN t ELSE last_space_time_left
    /\ now' = t
    /\ sink_raised' = FALSE
    /\ NextHand
    /\ UNCHANGED <<current_volume, sinks, calls, firedAt>>
\* lines 99, 109, 119, 134: the pattern matches and the gate is closed
Suppressed(t) ==
    /\ AtHand /\ GestureOf(hands[idx]) \in Actions
    /\ ReadClock(t)
    /\ ~CooldownElapsed(t, Timer(GestureOf(hands[idx])), Cooldown(GestureOf(hands[idx])))
    /\ now' = t
    /\ sink_raised' = FALSE
    /\ NextHand
    /\ UNCHANGED <<globals, sinks, calls, firedAt>>

\* lines 91-139: no branch of the chain matches
NoGesture(t) ==
    /\ AtHand /\ GestureOf(hands[idx]) = "None"
    /\ ReadClock(t)
    /\ now' = t
    /\ sink_raised' = FALSE
    /\ NextHand
    /\ UNCHANGED <<globals, sinks, calls, firedAt>>

\* lines 101-102, 121, 136: the sink call raises.  No handler encloses it, so
\* the exception leaves the generator: nothing after the call runs, not the
\* update of the last-fired time, not the yield, not cap.release().  The
\* cached volume was assigned before the call (line 101 / 111).
SinkRaises(t) ==
    /\ AtHand /\ GestureOf(hands[idx]) \in Actions
    /\ ReadClock(t)
    /\ CooldownElapsed(t, Timer(GestureOf(hands[idx])), Cooldown(GestureOf(hands[idx])))
    /\ current_volume' =
         CASE GestureOf(hands[idx]) = "VolumeUp" -> IncreasedVolume(current_volume)
           [] GestureOf(hands[idx]) = "VolumeDown" -> DecreasedVolume(current_volume)
           [] OTHER -> current_volume
    /\ now' = t
    /\ sink_raised' = TRUE
    /\ pc' = "failed"
    /\ UNCHANGED <<sessions, conc, last_screenshot_time_right, last_space_time_left,
                   last_volume_change_time_right, sinks, cap, hands, idx, calls,
                   firedAt, snap, on_script, counters>>

\* lines 141-147: the frame is encoded and yielded
YieldFrame ==
    /\ pc = "hands" /\ idx > Len(hands)
    /\ emitted' = emitted + 1
    /\ pc' = "yield"
    /\ UNCHANGED <<sessions, conc, now, globals, sinks, cap, locals, history, frames,
                   detected, cap_releases>>

\* line 70: the response asks for the next part; the loop goes round.  The
\* locals of the finished iteration are dead (line 79 assigns hands anew).
Resume ==
    /\ pc = "yield"
    /\ pc' = "read"
    /\ hands' = <<>>
    /\ idx' = 1
    /\ current_time' = 0
    /\ calls' = NoCalls
    /\ snap' = NoSnap
    /\ UNCHANGED <<sessions, conc, now, globals, sinks, cap, firedAt, sink_raised, on_script,
                   counters>>

\* line 146: the client disconnects and the response closes the generator,
\* which is suspended at the yield: GeneratorExit is raised there and leaves
\* the function; line 149 is not reached.
Disconnect ==
    /\ pc = "yield"
    /\ pc' = "closed"
    /\ UNCHANGED <<sessions, conc, now, globals, sinks, cap, locals, history, counters>>

Next ==
    \/ video_feed
    \/ \E hs \in Detections : ReadFrame(hs)
    \/ ReadFails
    \/ \E d \in Deltas : IncreaseVolume(now + d)
    \/ \E d \in Deltas : DecreaseVolume(now + d)
    \/ \E d \in Deltas, l \in 0 .. MaxLatency : TakeScreenshot(now + d, now + d + l)
    \/ \E d \in Deltas : PressSpace(now + d)
    \/ \E d \in Deltas : Suppressed(now + d)
    \/ \E d \in Deltas : NoGesture(now + d)
    \/ \E d \in Deltas : SinkRaises(now + d)
    \/ YieldFrame
    \/ Resume
    \/ Disconnect

Spec == Init /\ [][Next]_vars

\* ------------------------------------------------- two viewers at once
\* app.run (line 165) serves each request in its own thread, so two viewers
\* of /video_feed run two generate_frames generators over the same module
\* globals, with no lock.  A thread switch can fall between any two of the
\* steps below.  The generators dispatch Right hands showing ThumbOnly or
\* LittleOnly (lines 98-115); the sink calls return.  The locals of a
\* generator are cleared when its dispatch ends.
ConcOther ==
    UNCHANGED <<pc, cap, locals, calls, sink_raised, snap, on_script, sessions,
                frames, emitted, cap_releases, files, overwritten,
                last_screenshot_time_right, last_space_time_left>>

\* lines 56-68: a viewer connects and its generator starts
ConcVideoFeed(g) ==
    /\ gpc[g] = "idle"
    /\ gpc' = [gpc EXCEPT ![g] = "read"]
    /\ UNCHANGED <<now, globals, sinks, detected, firedAt, ghand, gtime, gtmp,
                   expected>>
    /\ ConcOther

\* lines 71-91: the generator reads a frame whose hand matches volume action a
ConcReadFrame(g, a) ==
    /\ gpc[g] = "read"
    /\ a \in {"VolumeUp", "VolumeDown"}
    /\ detected < MaxConcDetections
    /\ detected' = detected + 1
    /\ ghand' = [ghand EXCEPT ![g] = a]
    /\ gpc' = [gpc EXCEPT ![g] = "clock"]
    /\ UNCHANGED <<now, globals, sinks, firedAt, gtime, gtmp, expected>>
    /\ ConcOther

\* line 95: current_time = time.time()
ConcReadClock(g, t) ==
    /\ gpc[g] = "clock"
    /\ t >= now
    /\ now' = t
    /\ gtime' = [gtime EXCEPT ![g] = t]
    /\ gpc' = [gpc EXCEPT ![g] = "gate"]
    /\ UNCHANGED <<globals, sinks, detected, firedAt, ghand, gtmp, expected>>
    /\ ConcOther

\* lines 98-99 / 108-109: the cooldown test reads the shared last-fired time
ConcGate(g) ==
    /\ gpc[g] = "gate"
    /\ IF CooldownElapsed(gtime[g], last_volume_change_time_right,
                          volume_cooldown_right)
       THEN /\ gpc' = [gpc EXCEPT ![g] = "load"]
            /\ UNCHANGED <<ghand, gtime>>
       ELSE /\ gpc' = [gpc EXCEPT ![g] = "read"]
            /\ ghand' = [ghand EXCEPT ![g] = "None"]
            /\ gtime' = [gtime EXCEPT ![g] = 0]
    /\ UNCHANGED <<now, globals, sinks, detected, firedAt, gtmp, expected>>
    /\ ConcOther

\* line 101 / 111, right-hand side: the shared cached volume is read and stepped
ConcLoad(g) ==
    /\ gpc[g] = "load"
    /\ gtmp' = [gtmp EXCEPT ![g] =
                  IF ghand[g] = "VolumeUp" THEN IncreasedVolume(current_volume)
                  ELSE DecreasedVolume(current_volume)]
    /\ gpc' = [gpc EXCEPT ![g] = "store"]
    /\ UNCHANGED <<now, globals, sinks, detected, firedAt, ghand, gtime, expected>>
    /\ ConcOther

\* line 101 / 111, assignment: the stepped value is stored in the shared global
ConcStore(g) ==
    /\ gpc[g] = "store"
    /\ current_volume' = gtmp[g]
    /\ gtmp' = [gtmp EXCEPT ![g] = 0]
    /\ gpc' = [gpc EXCEPT ![g] = "sink"]
    /\ UNCHANGED <<now, last_screenshot_time_right, last_space_time_left,
                   last_volume_change_time_right, sinks, detected, firedAt, ghand,
                   gtime, expected>>
    /\ ConcOther

\* line 102 / 112: the sink is called with the global as it is now: the action fires
ConcSink(g) ==
    /\ gpc[g] = "sink"
    /\ volume_control' = current_volume
    /\ firedAt' = [firedAt EXCEPT ![ghand[g]] = gtime[g]]
    /\ expected' = IF ghand[g] = "VolumeUp" THEN IncreasedVolume(expected)
                   ELSE DecreasedVolume(expected)
    /\ gpc' = [gpc EXCEPT ![g] = "stamp"]
    /\ UNCHANGED <<now, globals, detected, ghand, gtime, gtmp>>
    /\ ConcOther

\* line 103 / 113: the shared last-fired time is set to the generator's clock read
ConcStamp(g) ==
    /\ gpc[g] = "stamp"
    /\ last_volume_change_time_right' = gtime[g]
    /\ gpc' = [gpc EXCEPT ![g] = "read"]
    /\ ghand' = [ghand EXCEPT ![g] = "None"]
    /\ gtime' = [gtime EXCEPT ![g] = 0]
    /\ UNCHANGED <<now, current_volume, last_screenshot_time_right,
                   last_space_time_left, sinks, detected, firedAt, gtmp, expected>>
    /\ ConcOther

NextConc ==
    \/ \E g \in Generators : ConcVideoFeed(g)
    \/ \E g \in Generators, a \in Actions : ConcReadFrame(g, a)
    \/ \E g \in Generators, d \in ConcDeltas : ConcReadClock(g, now + d)
    \/ \E g \in Generators : ConcGate(g)
    \/ \E g \in Generators : ConcLoad(g)
    \/ \E g \in Generators : ConcStore(g)
    \/ \E g \in Generators : ConcSink(g)
    \/ \E g \in Generators : ConcStamp(g)

SpecConc == Init /\ [][NextConc]_vars

\* ------------------------------------------------------- a held gesture
\* One viewer, one hand of the rule table shown in every frame; camera reads
\* succeed, the sink calls return, and every clock read is later than the
\* one before.  The run is followed up to the clock value HoldHorizon.
HoldDeltas == {1, 3, 7}
HoldHorizon == StartTime + HoldTicks
\* Clock values from which a full cooldown, and the frame after it, still
\* fit before HoldHorizon.
HoldMargin == screenshot_cooldown_right + 2 * 7 + MaxLatency

\* lines 71-79: the next frame shows the same hand as the one before
HoldReadFrame(h) ==
    /\ pc = "read"
    /\ now < HoldHorizon
    /\ hands = <<>> \/ hands = <<h>>
    /\ hands' = <<h>>
    /\ idx' = 1
    /\ pc' = "hands"
    /\ calls' = NoCalls
    /\ sink_raised' = FALSE
    /\ UNCHANGED <<sessions, conc, now, globals, sinks, cap, current_time, snap,
                   on_script, firedAt, counters>>

\* lines 141-147, 70: the frame is yielded and the client asks for the next
HoldYieldFrame ==
    /\ pc = "hands" /\ idx > Len(hands)
    /\ pc' = "read"
    /\ UNCHANGED <<sessions, conc, now, globals, sinks, cap, locals, history,
                   counters>>

NextHold ==
    \/ video_feed /\ pc = "idle"
    \/ \E h \in RuleTable : HoldReadFrame(h)
    \/ \E d \in HoldDeltas : now + d <= HoldHorizon /\ IncreaseVolume(now + d)
    \/ \E d \in HoldDeltas : now + d <= HoldHorizon /\ DecreaseVolume(now + d)
    \/ \E d \in HoldDeltas, l \in 0 .. MaxLatency :
          now + d + l <= HoldHorizon /\ TakeScreenshot(now + d, now + d + l)
    \/ \E d \in HoldDeltas : now + d <= HoldHorizon /\ PressSpace(now + d)
    \/ \E d \in HoldDeltas : now + d <= HoldHorizon /\ Suppressed(now + d)
    \/ HoldYieldFrame

\* The generator keeps running while the client consumes the stream.
SpecHold == Init /\ [][NextHold]_vars /\ WF_vars(NextHold)

\* ------------------------------------------------------------- type check
TypeOK ==
    /\ now \in Nat
    /\ current_volume \in Int
    /\ pc \in {"idle", "read", "hands", "yield", "done", "closed", "failed"}
    /\ cap \in {"none", "open", "released"}
    /\ idx \in 1 .. maxHands + 1
    /\ Len(hands) <= maxHands

\* ------------------------------------------------------------------ claims
\* The step dispatches a hand and action a fires: its sink call completes.
Fires(a) == pc = "hands" /\ calls'[a] = calls[a] + 1

\* C1: an action fires only if the clock read of the dispatch is more than its
\* cooldown after the last-fired time its gate reads, and the firing sets that
\* last-fired time to the clock read in the same step; so two consecutive
\* firings of one action are more than its cooldown apart.  Right ThumbOnly
\* 0.1 s (2 ticks) after a VolumeUp firing is suppressed, 0.25 s (5 ticks)
\* after it fires.
C1_CooldownGate ==
    [][ /\ \A a \in Actions :
             Fires(a) =>
               /\ current_time' - Timer(a) > Cooldown(a)
               /\ Timer(a)' = current_time'
               /\ current_time' - firedAt[a] > Cooldown(a)
               /\ firedAt'[a] = current_time'
        /\ ( /\ AtHand /\ hands[idx] = Hand("Right", ThumbOnly)
             /\ firedAt["VolumeUp"] > 0
             /\ last_volume_change_time_right = firedAt["VolumeUp"]
             /\ idx' = idx + 1 )
           => /\ current_time' = firedAt["VolumeUp"] + 2
                   => (calls' = calls /\ UNCHANGED <<globals, sinks>>)
              /\ current_time' = firedAt["VolumeUp"] + 5 => Fires("VolumeUp")
      ]_vars
\* Two VolumeUp firings in one frame (the second hand dispatched 0.25 s or more
\* after the first).
C1_Witness == calls["VolumeUp"] = 2 /\ pc = "yield"

\* The actions whose gate reads the same last-fired variable as a's.
SameTimer(a) ==
    IF a \in {"VolumeUp", "VolumeDown"} THEN {"VolumeUp", "VolumeDown"} ELSE {a}
\* The latest firing among the actions of a's timer.
GroupFiredAt(a) ==
    CHOOSE t \in {firedAt[b] : b \in SameTimer(a)} :
        \A b \in SameTimer(a) : firedAt[b] <= t

\* C2 (as stated): a matched observation of an action whose own last firing is
\* more than its own cooldown in the past fires (unless its sink raises),
\* whichever other action fired in between.
C2_PerActionCooldown ==
    [][ \A a \in Actions :
          ( /\ AtHand /\ GestureOf(hands[idx]) = a
            /\ idx' = idx + 1
            /\ current_time' - firedAt[a] > Cooldown(a) )
          => Fires(a)
      ]_vars
\* C2 (amended): the cooldown state is kept per last-fired variable, and
\* VolumeUp and VolumeDown share one.  A firing writes only the variable its
\* own gate reads, and a matched observation fires (unless its sink raises)
\* whenever the latest firing among the actions of its variable is more than
\* its cooldown in the past.
C2_PerTimerCooldown ==
    [][ \A a \in Actions :
          /\ Fires(a) =>
               \A b \in Actions \ SameTimer(a) : Timer(b)' = Timer(b)
          /\ ( /\ AtHand /\ GestureOf(hands[idx]) = a
               /\ idx' = idx + 1
               /\ current_time' - GroupFiredAt(a) > Cooldown(a) )
             => Fires(a)
      ]_vars
\* SpacePress fires in the same frame as, and at the clock read of, a VolumeUp
\* firing.
C2_Witness ==
    /\ calls["VolumeUp"] = 1 /\ calls["SpacePress"] = 1
    /\ firedAt["SpacePress"] = firedAt["VolumeUp"]

\* C3: a hand is dispatched to an action exactly if its (handedness, vector)
\* pair is in the rule table, and the dispatch of a hand that is not in the
\* table calls no sink and leaves the cached volume, the last-fired times and
\* the sinks unchanged.
C3_NoMatchNoEffect ==
    /\ [](\A h \in AllHands : (GestureOf(h) \in Actions) <=> (h \in RuleTable))
    /\ [][ (AtHand /\ hands[idx] \notin RuleTable)
             => /\ calls' = calls /\ firedAt' = firedAt
                /\ UNCHANGED <<globals, sinks>>
                /\ idx' = idx + 1 /\ pc' = "hands"
         ]_vars
\* A Left hand showing the VolumeUp pattern has been dispatched.
C3_Witness ==
    /\ pc = "hands" /\ idx = 2 /\ hands = <<Hand("Left", ThumbOnly)>>
    /\ calls = NoCalls

\* C4: the cached volume and the volume set on the sink stay within
\* [0.0, 1.0]; a VolumeUp firing yields min(v + 0.01, 1.0), a VolumeDown
\* firing max(v - 0.01, 0.0), and passes that value to the sink.
C4_VolumeClamped ==
    /\ [](current_volume \in 0 .. VolumeMax /\ volume_control \in 0 .. VolumeMax)
    /\ [][ /\ Fires("VolumeUp") =>
                /\ current_volume' = Min(current_volume + VolumeStep, VolumeMax)
                /\ volume_control' = current_volume'
           /\ Fires("VolumeDown") =>
                /\ current_volume' = Max(current_volume - VolumeStep, 0)
                /\ volume_control' = current_volume'
         ]_vars
\* VolumeUp fired at 0.995 and again at 1.0.
C4_Witness ==
    /\ calls["VolumeUp"] = 2 /\ snap.volume = 199
    /\ current_volume = VolumeMax

\* C5: a step in which the camera read fails (the loop is at the read and no
\* frame is obtained) ends the generator with the camera released, by the
\* one release call of the session; an ended generator emits no part and
\* dispatches nothing.
C5_ReadFailureEndsLoop ==
    /\ [](pc = "done" => (cap = "released" /\ cap_releases = 1))
    /\ [][ /\ (pc = "read" /\ frames' = frames)
              => (pc' = "done" /\ cap' = "released" /\ cap_releases' = 1)
           /\ (pc = "done" /\ pc' = "done")
              => UNCHANGED <<emitted, frames, globals, sinks, calls, firedAt,
                             cap, cap_releases>>
           /\ (pc = "done" /\ pc' # "done") => (pc' = "read" /\ cap' = "open")
         ]_vars
\* The read fails on a later iteration, after a part was emitted.
C5_Witness == pc = "done" /\ emitted >= 1 /\ cap_releases = 1

\* C6 (as stated): whenever the generator has ended, by a failed read or by
\* the client's disconnection, the camera has been released.
C6_ReleasedWhenLoopEnds == pc \in {"done", "closed"} => cap = "released"

\* C7 (as stated): a dispatch whose sink call raises keeps the generator in
\* the hand loop, which goes on to the next hand and then to the yield.
C7_SinkFailureCaught ==
    [][ (AtHand /\ sink_raised') => (pc' = "hands" /\ idx' = idx + 1) ]_vars

\* The last-fired time of a's gate when the current frame was read.
SnapTimer(a) ==
    CASE a = "VolumeUp" -> snap.vol
      [] a = "VolumeDown" -> snap.vol
      [] a = "Screenshot" -> snap.shot
      [] a = "SpacePress" -> snap.space
\* The hand loop of the current frame has run to its end.
LoopDone == pc = "yield" \/ (pc = "hands" /\ idx > Len(hands))

\* C8: when the hand loop of a frame with a Left and a Right hand, in either
\* order, each showing a trigger pattern whose cooldown had elapsed when the
\* frame was read, has run to its end, both actions have fired, once each,
\* while the frame was processed.
C8_BothHandsFire ==
    ( /\ LoopDone
      /\ Len(hands) = 2
      /\ hands[1].type # hands[2].type
      /\ \A i \in 1 .. 2 :
           /\ hands[i] \in RuleTable
           /\ snap.now - SnapTimer(GestureOf(hands[i])) > Cooldown(GestureOf(hands[i])) )
    => \A i \in 1 .. 2 : calls[GestureOf(hands[i])] = 1
\* Left PalmOpen first, Right ThumbOnly second; both fired.
C8_Witness ==
    /\ pc = "yield"
    /\ hands = <<Hand("Left", PalmOpen), Hand("Right", ThumbOnly)>>
    /\ calls["SpacePress"] = 1 /\ calls["VolumeUp"] = 1

\* C9: in a fresh process fed the frames of Scenario, processing frame 1 makes
\* exactly one sink call, a volume increase; processing frame 2 makes no sink
\* call and changes nothing; processing frame 3 makes exactly one sink call, a
\* space key press.  Any frame without hands makes no sink call and leaves the
\* clock read, the volume, the last-fired times and the sinks as they were
\* when it was read.
C9_Scenario ==
    /\ (pc \in {"hands", "yield"} /\ hands = <<>>)
         => (calls = NoCalls /\ Snapshot = snap)
    /\ (on_script /\ pc = "yield" /\ frames = 1)
         => /\ calls = [NoCalls EXCEPT !["VolumeUp"] = 1]
            /\ volume_control = Min(snap.volume + VolumeStep, VolumeMax)
    /\ (on_script /\ pc = "yield" /\ frames = 2)
         => (calls = NoCalls /\ Snapshot = snap)
    /\ (on_script /\ pc = "yield" /\ frames = 3)
         => /\ calls = [NoCalls EXCEPT !["SpacePress"] = 1]
            /\ last_space_time_left = current_time
\* The third frame of the scenario has been processed.
C9_Witness ==
    /\ on_script /\ pc = "yield" /\ frames = 3
    /\ calls["SpacePress"] = 1 /\ emitted = 3

\* C10: a Screenshot firing is more than the 5 s cooldown after the previous
\* one and writes a file name no earlier screenshot has: no file is
\* overwritten.
C10_DistinctScreenshots ==
    /\ [](~overwritten)
    /\ [][ Fires("Screenshot") =>
             /\ current_time' - firedAt["Screenshot"] > screenshot_cooldown_right
             /\ Cardinality(files') = Cardinality(files) + 1
         ]_vars
\* Two screenshots have been saved.
C10_Witness == Cardinality(files) = 2 /\ ~overwritten

\* C11: the dispatch of a hand that shows the pattern of an action while the
\* clock read is at most the action's cooldown after the last-fired time of
\* its gate calls no sink and changes neither the cached volume nor any
\* last-fired time: the suppressed detection does not restart the cooldown.
C11_SuppressedNoOp ==
    [][ \A a \in Actions :
          ( /\ AtHand /\ GestureOf(hands[idx]) = a
            /\ current_time' - Timer(a) <= Cooldown(a) )
          => /\ calls' = calls /\ firedAt' = firedAt
             /\ UNCHANGED <<globals, sinks>>
             /\ ~sink_raised'
             /\ idx' = idx + 1 /\ pc' = "hands"
      ]_vars
\* The second of two Right ThumbOnly hands of one frame was suppressed, later
\* than the firing of the first.
C11_Witness ==
    /\ pc = "hands" /\ idx = 3 /\ calls["VolumeUp"] = 1
    /\ hands = <<Hand("Right", ThumbOnly), Hand("Right", ThumbOnly)>>
    /\ current_time > last_volume_change_time_right

\* C12 (as stated): the cycle is strictly sequential.  Every frame read has
\* been emitted as exactly one part once the generator is past its hand loop;
\* a part is emitted only when the hand loop has dispatched every hand of the
\* frame; a frame is read only when every earlier frame has been emitted; a
\* failed read emits no part.
C12_SequentialCycle ==
    /\ [](pc # "hands" => emitted = frames)
    /\ [](pc = "hands" => emitted = frames - 1)
    /\ [][ /\ emitted' # emitted
              => /\ emitted' = emitted + 1
                 /\ pc = "hands" /\ idx > Len(hands) /\ pc' = "yield"
           /\ frames' # frames => (pc = "read" /\ emitted = frames)
           /\ (pc = "read" /\ frames' = frames) => emitted' = emitted
         ]_vars

\* C13: the last-fired times and the cached volume belong to the process, not
\* to a streaming session.  The start of a session changes none of them (nor
\* the device); in a session that is not the first, an action fires only more
\* than its cooldown after the latest firing of its timer in any session, a
\* matched observation inside that cooldown changes nothing, and a volume
\* adjustment steps from the cached value (not from the device's) and passes
\* the result to the device.
C13_ProcessWideState ==
    [][ /\ (pc \in {"idle", "done", "closed", "failed"} /\ pc' = "read")
           => UNCHANGED <<globals, sinks, firedAt>>
        /\ later_session =>
             \A a \in Actions :
               /\ Fires(a) => current_time' - GroupFiredAt(a) > Cooldown(a)
               /\ ( /\ AtHand /\ GestureOf(hands[idx]) = a
                    /\ idx' = idx + 1
                    /\ current_time' - GroupFiredAt(a) <= Cooldown(a) )
                  => (calls' = calls /\ UNCHANGED <<globals, sinks>>)
        /\ (later_session /\ Fires("VolumeUp"))
             => /\ current_volume' = IncreasedVolume(current_volume)
                /\ volume_control' = current_volume'
        /\ (later_session /\ Fires("VolumeDown"))
             => /\ current_volume' = DecreasedVolume(current_volume)
                /\ volume_control' = current_volume'
      ]_vars
\* The first frame of a second session shows Right ThumbOnly 0.1 s after the
\* VolumeUp firing of the first session's only frame, and is suppressed.
C13_Witness ==
    /\ later_session /\ pc = "hands" /\ idx = 2
    /\ frames = 2 /\ emitted = 1 /\ detected = 2
    /\ hands = <<Hand("Right", ThumbOnly)>>
    /\ calls = NoCalls /\ ~sink_raised
    /\ firedAt["VolumeUp"] > 0
    /\ current_time = firedAt["VolumeUp"] + 2
    /\ last_volume_change_time_right = firedAt["VolumeUp"]
\* A second session adjusts the volume from a cached value that differs from
\* the device's (the first session ended in a raising volume sink).
C13_WitnessCached ==
    /\ later_session /\ pc = "hands" /\ idx = 2
    /\ calls["VolumeUp"] = 1
    /\ snap.volume # snap.device
    /\ current_volume = IncreasedVolume(snap.volume)
    /\ volume_control = current_volume

\* C14: no hand satisfies the tests of two rules, so the order of the elif
\* chain decides nothing: the chain selects action a exactly for the hands
\* that satisfy a's test.  The dispatch of one hand makes at most one sink
\* call: at most one action's call count grows, by one, that action is the
\* one the hand matches, and only that action's sink and last-fired time
\* change.  (The first conjunct is about the rules alone, over all 64 hands;
\* it is evaluated once, before the first session.)
C14_AtMostOneAction ==
    /\ [](pc = "idle" =>
            \A h \in AllHands :
              /\ Cardinality({a \in Actions : RuleMatches(a, h)}) <= 1
              /\ \A a \in Actions : RuleMatches(a, h) <=> (GestureOf(h) = a))
    /\ [][ AtHand =>
             /\ Cardinality({a \in Actions : calls'[a] # calls[a]}) <= 1
             /\ \A a \in Actions :
                  /\ calls'[a] \in {calls[a], calls[a] + 1}
                  /\ calls'[a] # calls[a] => RuleMatches(a, hands[idx])
                  /\ Timer(a)' # Timer(a) =>
                       \E b \in SameTimer(a) : calls'[b] # calls[b]
             /\ volume_control' # volume_control =>
                  (calls'["VolumeUp"] # calls["VolumeUp"]
                     \/ calls'["VolumeDown"] # calls["VolumeDown"])
             /\ files' # files => calls'["Screenshot"] # calls["Screenshot"]
             /\ idx' \in {idx, idx + 1}
         ]_vars
\* A frame with two hands, each matching one rule: each dispatch made one
\* call, of a different sink.
C14_Witness ==
    /\ pc = "hands" /\ idx = 3
    /\ hands = <<Hand("Right", Victory), Hand("Left", PalmOpen)>>
    /\ calls = [NoCalls EXCEPT !["Screenshot"] = 1, !["SpacePress"] = 1]

\* No sink call of the process has raised: every frame read so far has been
\* emitted, or is the one being dispatched.
NoSinkFailure ==
    /\ pc # "failed"
    /\ emitted = (IF pc = "hands" THEN frames - 1 ELSE frames)

\* C17: the cached volume changes only in the step of a VolumeUp or VolumeDown
\* firing (or of a volume sink call that raises), and the firing passes the
\* new cached value to the device; so as long as no sink call has raised the
\* cached value equals the value of the device, which is the value read at
\* startup until the first volume firing.  A VolumeUp dispatched with the
\* cooldown elapsed while the cached value is 1.0 (a VolumeDown while it is
\* 0.0) fires all the same: the sink is called with the clamped value and
\* the last-fired time is set to the clock read.
C17_CachedVolumeMirrorsSink ==
    /\ [](NoSinkFailure => current_volume = volume_control)
    /\ []((NoSinkFailure /\ firedAt["VolumeUp"] = 0 /\ firedAt["VolumeDown"] = 0)
            => current_volume \in InitVolumes)
    /\ [][ /\ current_volume' # current_volume
               => \/ Fires("VolumeUp") \/ Fires("VolumeDown")
                  \/ (sink_raised' /\ pc' = "failed")
           /\ volume_control' # volume_control
               => (Fires("VolumeUp") \/ Fires("VolumeDown"))
           /\ (Fires("VolumeUp") \/ Fires("VolumeDown"))
               => volume_control' = current_volume'
           /\ ( /\ AtHand /\ idx' = idx + 1
                /\ current_time' - last_volume_change_time_right
                     > volume_cooldown_right
                /\ \/ GestureOf(hands[idx]) = "VolumeUp"
                         /\ current_volume = VolumeMax
                   \/ GestureOf(hands[idx]) = "VolumeDown"
                         /\ current_volume = 0 )
               => /\ Fires(GestureOf(hands[idx]))
                  /\ volume_control' = current_volume
                  /\ current_volume' = current_volume
                  /\ last_volume_change_time_right' = current_time'
         ]_vars
\* A VolumeUp has fired in a frame that started with the cached value at 1.0.
C17_Witness ==
    /\ pc = "hands" /\ idx = 2 /\ NoSinkFailure
    /\ hands = <<Hand("Right", ThumbOnly)>>
    /\ snap.volume = VolumeMax /\ snap.device = VolumeMax
    /\ calls["VolumeUp"] = 1
    /\ current_volume = VolumeMax /\ volume_control = VolumeMax
    /\ last_volume_change_time_right = current_time
    /\ current_time > snap.vol

\* C15 (as stated, under SpecConc): with two generators interleaved, a firing
\* of an action is more than the cooldown away from the previous firing of
\* the same action, and whenever neither generator is inside a dispatch the
\* cached volume and the device hold the value that the firings so far, one
\* after the other, produce.
C15_AtomicGate ==
    /\ [][ \A g \in Generators :
             (gpc[g] = "sink" /\ gpc'[g] = "stamp" /\ firedAt[ghand[g]] > 0)
               => \/ gtime[g] - firedAt[ghand[g]] > volume_cooldown_right
                  \/ firedAt[ghand[g]] - gtime[g] > volume_cooldown_right
         ]_vars
    /\ []((\A g \in Generators : gpc[g] \in {"idle", "read"})
            => (current_volume = expected /\ volume_control = expected))

\* C16 (under SpecHold): while a gesture of the rule table is held, a dispatch
\* whose clock read is more than the cooldown after the last-fired time
\* fires the action and restarts the cooldown from that clock read; and from
\* every moment after which a full cooldown still fits in the run, the
\* action fires (again): the gesture is never suppressed for good.
C16_HeldGestureFiresAgain ==
    /\ [][ \A a \in Actions :
             ( /\ AtHand /\ GestureOf(hands[idx]) = a
               /\ idx' = idx + 1
               /\ current_time' - Timer(a) > Cooldown(a) )
             => (Fires(a) /\ Timer(a)' = current_time')
         ]_vars
    /\ (pc \in {"read", "hands"} /\ calls = NoCalls /\ now <= HoldHorizon - HoldMargin)
         ~> (pc = "hands" /\ idx = 2 /\ calls[GestureOf(hands[1])] = 1)
\* The held Victory pose has fired a second time, more than 5 s after the
\* process started.
C16_Witness ==
    /\ pc = "hands" /\ idx = 2
    /\ hands = <<Hand("Right", Victory)>>
    /\ calls["Screenshot"] = 1
    /\ firedAt["Screenshot"] > StartTime + screenshot_cooldown_right
    /\ firedAt["Screenshot"] = last_screenshot_time_right

====
